---- MODULE Spec2Model ----
(***************************************************************************)
(* Model of public/engine/telegram.js: getRequest (request snapshot with   *)
(* a geolocation lookup) and sendTele (MarkdownV2 escaping and delivery    *)
(* to the Telegram Bot API).                                               *)
(*                                                                         *)
(* JavaScript values are records tagged by their type in field t.  Short   *)
(* texts that the code only concatenates are TLA+ strings; the message     *)
(* text that escapeMarkdownV2 scans is a sequence of UTF-16 code units.    *)
(***************************************************************************)
EXTENDS Integers, Sequences, FiniteSets

VARIABLES
    pc,          \* where the host is: idle, awaiting a call, or a settled promise
    token,       \* global.token
    chatid,      \* global.chatid
    req,         \* argument of the running getRequest invocation
    locals,      \* getRequest's constants held across its await
    snapshot,    \* value the getRequest promise resolved with
    rawMessage,  \* argument of the running sendTele invocation
    calls,       \* outbound calls issued by the running invocation
    reply,       \* how the awaited outbound call settled
    log,         \* console lines written by the running invocation
    text,        \* escaper harness: input text
    out,         \* escaper harness: escapeMarkdownV2(text)
    epc          \* escaper harness: position

vars == <<pc, token, chatid, req, locals, snapshot, rawMessage, calls, reply, log,
          text, out, epc>>

hostVars == <<pc, token, chatid, req, locals, snapshot, rawMessage, calls, reply, log>>
escVars == <<text, out, epc>>

----------------------------------------------------------------------------
(* Bounds *)

\* longest rawMessage passed to sendTele, in code units
MaxMsgLen == 1
\* longest text given to the escaper harness, in code units
MaxTextLen == 3

----------------------------------------------------------------------------
(* JavaScript values *)

Undefined == [t |-> "undefined"]
Null == [t |-> "null"]
Str(s) == [t |-> "string", v |-> s]
Bool(b) == [t |-> "boolean", v |-> b]
\* an object is its own properties in insertion order, as <<key, value>> pairs
Obj(entries) == [t |-> "object", entries |-> entries]
\* an object literal in which an Undefined value means the key is left out
MkObj(pairs) == Obj(SelectSeq(pairs, LAMBDA e : e[2] # Undefined))

\* ToBoolean, as used by !, || and ?:
Truthy(x) ==
    CASE x.t = "string" -> x.v # ""
      [] x.t = "boolean" -> x.v
      [] x.t = "object" -> TRUE
      [] OTHER -> FALSE

\* a || b
Or(a, b) == IF Truthy(a) THEN a ELSE b

\* reading a property of undefined or null throws a TypeError
Throws(o) == o.t \in {"undefined", "null"}

\* o[k] for an o that does not throw
Get(o, k) ==
    IF o.t # "object" THEN Undefined
    ELSE LET hits == SelectSeq(o.entries, LAMBDA e : e[1] = k)
         IN IF hits = <<>> THEN Undefined ELSE hits[Len(hits)][2]

\* message of the TypeError thrown by reading property k of o
TypeErrorMessage(o, k) ==
    "Cannot read properties of " \o o.t \o " (reading '" \o k \o "')"

\* the conversion a template literal applies to an interpolated value
Interpolate(x) ==
    CASE x.t = "string" -> x.v
      [] x.t = "boolean" -> IF x.v THEN "true" ELSE "false"
      [] x.t = "object" -> "[object Object]"
      [] OTHER -> x.t

RECURSIVE JoinLines(_, _)
JoinLines(ls, sep) ==
    IF Len(ls) = 1 THEN ls[1] ELSE ls[1] \o sep \o JoinLines(Tail(ls), sep)

\* JSON text of a string or boolean value
JSONValue(x) == IF x.t = "string" THEN "\"" \o x.v \o "\"" ELSE Interpolate(x)

\* JSON.stringify(o, null, 2) of an object of strings and booleans
JSONStringify(o) ==
    IF o.entries = <<>> THEN "{}"
    ELSE "{\n"
         \o JoinLines([i \in 1..Len(o.entries) |->
                "  \"" \o o.entries[i][1] \o "\": " \o JSONValue(o.entries[i][2])], ",\n")
         \o "\n}"

\* JSON.stringify(x): undefined for undefined, compact text otherwise
JSONCompact(x) ==
    CASE x.t = "undefined" -> Undefined
      [] x.t = "null" -> Str("null")
      [] x.t = "object" ->
            IF x.entries = <<>> THEN Str("{}")
            ELSE Str("{" \o JoinLines([i \in 1..Len(x.entries) |->
                        "\"" \o x.entries[i][1] \o "\":" \o JSONValue(x.entries[i][2])], ",")
                     \o "}")
      [] OTHER -> Str(JSONValue(x))

----------------------------------------------------------------------------
(* Console *)

logStyled(l, message, type) == Append(l, [type |-> type, text |-> message])
consoleError(l, message) == Append(l, [type |-> "console.error", text |-> message])

----------------------------------------------------------------------------
(* getRequest *)

\* line 46 reads req.headers[...] and, when that is falsy, req.connection.remoteAddress
getRequestThrows(r) ==
    \/ Throws(r.headers)
    \/ /\ ~Truthy(Get(r.headers, "x-forwarded-for"))
       /\ Throws(r.connection)

getRequestTypeError(r) ==
    IF Throws(r.headers) THEN TypeErrorMessage(r.headers, "x-forwarded-for")
    ELSE TypeErrorMessage(r.connection, "remoteAddress")

resolveIp(r) ==
    Or(Or(Get(r.headers, "x-forwarded-for"), Get(r.connection, "remoteAddress")),
       Str("Unknown IP"))
resolveUserAgent(r) == Or(Get(r.headers, "user-agent"), Str("Unknown User-Agent"))
\* variant: the fallback literal of the method is left out
resolveMethodNoFallback(r) == r.method
resolveMethod(r) == Or(r.method, Str("Unknown Method"))
resolveUrl(r) == Or(Or(r.originalUrl, r.url), Str("Unknown URL"))
serializeQuery(r) == IF Truthy(r.query) THEN Str(JSONStringify(r.query)) ELSE Str("{}")
serializeHeaders(r) == IF Truthy(r.headers) THEN Str(JSONStringify(r.headers)) ELSE Str("{}")

geoUrl(ip) ==
    "http://ip-api.com/json/" \o Interpolate(ip)
        \o "?fields=status,message,country,regionName,city,lat,lon"

\* variant: every status other than 'fail' is taken for a success
geoSuccessUnlessFail(data) == Truthy(data) /\ Get(data, "status") # Str("fail")
\* res.data && res.data.status === 'success'
geoSuccess(data) == Truthy(data) /\ Get(data, "status") = Str("success")

locationOnSuccess(data) ==
    Interpolate(Get(data, "city")) \o ", " \o Interpolate(Get(data, "regionName"))
        \o ", " \o Interpolate(Get(data, "country"))

locationOnFail(data) ==
    "Gagal mendapatkan lokasi: "
        \o Interpolate(Or(Get(data, "message"), Str("Error tidak diketahui dari ip-api.com")))

locationOnError(message) == "Error saat mengambil lokasi: " \o message

\* lines 65-78: the location text and the console lines for a settled lookup
geoLocation(o) ==
    IF o.kind = "error" THEN locationOnError(o.message)
    ELSE IF geoSuccess(o.data) THEN locationOnSuccess(o.data)
    ELSE IF Throws(o.data) THEN locationOnError(TypeErrorMessage(o.data, "message"))
    ELSE locationOnFail(o.data)

geoCatchLog(l, ip, message) ==
    logStyled(
        consoleError(l, "[ERROR FETCH] Gagal mendapatkan lokasi dari ip-api.com untuk IP "
                            \o Interpolate(ip) \o ": " \o message),
        "Terjadi kesalahan saat mencari lokasi.", "error")

geoLog(l, ip, o) ==
    IF o.kind = "error" THEN geoCatchLog(l, ip, o.message)
    ELSE IF geoSuccess(o.data) THEN
        logStyled(l, "Lokasi ditemukan: " \o locationOnSuccess(o.data)
                        \o " (Lat: " \o Interpolate(Get(o.data, "lat"))
                        \o ", Lon: " \o Interpolate(Get(o.data, "lon")) \o ")", "success")
    ELSE IF Throws(o.data) THEN geoCatchLog(l, ip, TypeErrorMessage(o.data, "message"))
    ELSE logStyled(l, "Gagal mencari lokasi IP: " \o locationOnFail(o.data), "warn")

----------------------------------------------------------------------------
(* Inputs of getRequest: requests of the host server, replies of ip-api.com *)

NoValue == [t |-> "none"]

HeaderObjects ==
    { MkObj(<< <<"x-forwarded-for", x>>, <<"user-agent", u>> >>) :
        x \in {Undefined, Str("203.0.113.7")},
        u \in {Undefined, Str(""), Str("curl/8.0")} }

ConnectionObjects ==
    { MkObj(<< <<"remoteAddress", a>> >>) : a \in {Undefined, Str("10.0.0.5")} }

QueryObjects == { MkObj(<< <<"q", q>> >>) : q \in {Undefined, Str("1")} }

Requests ==
    [ headers : {Undefined} \cup HeaderObjects,
      connection : {Undefined} \cup ConnectionObjects,
      method : {Undefined, Str("GET")},
      originalUrl : {Undefined, Str("/admin")},
      url : {Undefined, Str("/")},
      query : {Undefined} \cup QueryObjects ]

\* new Date().toLocaleString('id-ID', { timeZone: 'Asia/Jakarta' })
Timestamps == {"4/11/2026, 10.27.07"}

GeoBodies ==
    { MkObj(<< <<"status", s>>, <<"message", m>>, <<"country", Str("Indonesia")>>,
               <<"regionName", Str("DKI Jakarta")>>, <<"city", ci>>,
               <<"lat", Str("-6.2")>>, <<"lon", Str("106.8")>> >>) :
        s \in {Undefined, Str("success"), Str("fail")},
        m \in {Undefined, Str("invalid query")},
        ci \in {Undefined, Str("Jakarta")} }

\* a response carries a body object, an empty body, or no body at all
GeoOutcomes ==
    [ kind : {"response"}, data : {Undefined, Null, Str("")} \cup GeoBodies ]
    \cup [ kind : {"error"}, message : {"connect ECONNREFUSED", "timeout of 0ms exceeded"} ]

----------------------------------------------------------------------------
(* getRequest as steps of the host *)

\* lines 44-63: up to the await of axios.get
GetRequestCall(r, ts) ==
    /\ pc = "idle"
    /\ req' = r
    /\ IF getRequestThrows(r)
       THEN /\ pc' = "get_rejected"
            /\ reply' = [kind |-> "thrown", message |-> getRequestTypeError(r)]
            /\ UNCHANGED <<locals, calls, log>>
       ELSE /\ locals' = [ ip |-> resolveIp(r),
                           userAgent |-> resolveUserAgent(r),
                           method |-> resolveMethod(r),
                           url |-> resolveUrl(r),
                           query |-> serializeQuery(r),
                           headers |-> serializeHeaders(r),
                           timestamp |-> Str(ts) ]
            /\ log' = logStyled(log, "Mencari detail lokasi untuk IP: "
                                        \o Interpolate(resolveIp(r)) \o "...", "info")
            /\ calls' = Append(calls, [api |-> "geo", url |-> geoUrl(resolveIp(r))])
            /\ pc' = "geo_await"
            /\ UNCHANGED reply
    /\ UNCHANGED <<token, chatid, snapshot, rawMessage, escVars>>

\* lines 63-90: the lookup settles and the promise resolves with the snapshot
GeoSettle(o) ==
    /\ pc = "geo_await"
    /\ reply' = o
    /\ log' = geoLog(log, locals.ip, o)
    /\ snapshot' = [ ip |-> locals.ip,
                     userAgent |-> locals.userAgent,
                     method |-> locals.method,
                     url |-> locals.url,
                     query |-> locals.query,
                     headers |-> locals.headers,
                     location |-> Str(geoLocation(o)),
                     timestamp |-> locals.timestamp ]
    /\ pc' = "get_resolved"
    /\ UNCHANGED <<token, chatid, req, locals, rawMessage, calls, escVars>>

----------------------------------------------------------------------------
(* escapeMarkdownV2 *)

\* code unit of the backslash
Backslash == 92

\* text.replace(/c/g, repl) for a pattern of one literal character c
RECURSIVE replace(_, _, _)
replace(txt, c, repl) ==
    IF txt = <<>> THEN <<>>
    ELSE (IF Head(txt) = c THEN repl ELSE <<Head(txt)>>) \o replace(Tail(txt), c, repl)

\* the 18 substitutions in source order: _ * [ ] ( ) ~ (backtick) > # + - = | { } . !
Substitutions ==
    << <<95, <<Backslash, 95>> >>,   <<42, <<Backslash, 42>> >>,
       <<91, <<Backslash, 91>> >>,   <<93, <<Backslash, 93>> >>,
       <<40, <<Backslash, 40>> >>,   <<41, <<Backslash, 41>> >>,
       <<126, <<Backslash, 126>> >>, <<96, <<Backslash, 96>> >>,
       <<62, <<Backslash, 62>> >>,   <<35, <<Backslash, 35>> >>,
       <<43, <<Backslash, 43>> >>,   <<45, <<Backslash, 45>> >>,
       <<61, <<Backslash, 61>> >>,   <<124, <<Backslash, 124>> >>,
       <<123, <<Backslash, 123>> >>, <<125, <<Backslash, 125>> >>,
       <<46, <<Backslash, 46>> >>,   <<33, <<Backslash, 33>> >> >>

\* a chain of replace calls, each applied to the result of the one before
RECURSIVE replaceChain(_, _)
replaceChain(txt, subs) ==
    IF subs = <<>> THEN txt
    ELSE replaceChain(replace(txt, Head(subs)[1], Head(subs)[2]), Tail(subs))

\* variant: the pattern of the 17th substitution is /./g, the dot left unescaped,
\* which matches every code unit but a line terminator
RECURSIVE replaceAnyUnit(_, _)
replaceAnyUnit(txt, repl) ==
    IF txt = <<>> THEN <<>>
    ELSE (IF Head(txt) \in {10, 13} THEN <<Head(txt)>> ELSE repl)
            \o replaceAnyUnit(Tail(txt), repl)
escapeDotPatternUnescaped(txt) ==
    replaceChain(replaceAnyUnit(replaceChain(txt, SubSeq(Substitutions, 1, 16)),
                                <<Backslash, 46>>),
                 SubSeq(Substitutions, 18, 18))

\* variant: a 19th substitution doubles every backslash after the other 18
escapeBackslashLast(txt) ==
    replace(replaceChain(txt, Substitutions), Backslash, <<Backslash, Backslash>>)

escapeMarkdownV2(txt) == replaceChain(txt, Substitutions)

\* "```\n" + escapedMessage + "\n```"
fullText(escapedMessage) == <<96, 96, 96, 10>> \o escapedMessage \o <<10, 96, 96, 96>>

----------------------------------------------------------------------------
(* sendTele *)

\* variant: && in place of ||
credentialsBothMissing(tok, chat) == ~Truthy(tok) /\ ~Truthy(chat)
\* !global.token || !global.chatid
credentialsMissing(tok, chat) == ~Truthy(tok) \/ ~Truthy(chat)

\* text.replace is read at line 108, outside the try block
escapeThrows(m) == m.t # "string"

teleUrl(tok) == "https://api.telegram.org/bot" \o Interpolate(tok) \o "/sendMessage"

teleRejectionLine(data) ==
    "Gagal mengirim notifikasi Telegram: "
        \o Interpolate(Or(Get(data, "description"), Str("Alasan tidak diketahui")))

\* lines 149-157: the catch block
teleCatchLog(l, message, response) ==
    LET l1 == consoleError(l, "[ERROR TELEGRAM] Error saat mengirim pesan Telegram: "
                                  \o message)
        l2 == IF Truthy(response)
              THEN consoleError(l1, "[ERROR TELEGRAM RAW] Respons API Telegram: "
                                        \o Interpolate(JSONCompact(Get(response, "data"))))
              ELSE l1
    IN logStyled(l2, "Notifikasi Telegram gagal terkirim karena kesalahan koneksi atau API.",
                 "error")

\* lines 143-157: the console lines for a settled sendMessage call
teleLog(l, o) ==
    IF o.kind = "error" THEN teleCatchLog(l, o.message, o.response)
    ELSE IF Throws(o.data) THEN teleCatchLog(l, TypeErrorMessage(o.data, "ok"), Undefined)
    ELSE IF Truthy(Get(o.data, "ok"))
         THEN logStyled(l, "Notifikasi Telegram berhasil terkirim!", "success")
    ELSE logStyled(l, teleRejectionLine(o.data), "error")

----------------------------------------------------------------------------
(* Inputs of sendTele *)

\* code units messages are built from: the 18 reserved ones, the backslash, "a"
Alphabet == { Substitutions[i][1] : i \in 1..Len(Substitutions) } \cup {Backslash, 97}

TextsUpTo(n) == UNION { [1..k -> Alphabet] : k \in 0..n }

RawMessages == {Undefined} \cup { [t |-> "string", v |-> m] : m \in TextsUpTo(MaxMsgLen) }

Tokens == {Undefined, Str(""), Str("123:ABC")}
ChatIds == {Undefined, Str("42")}

TeleBodies ==
    { MkObj(<< <<"ok", k>>, <<"description", d>> >>) :
        k \in {Undefined, Bool(TRUE), Bool(FALSE)},
        d \in {Undefined, Str("chat not found")} }

TeleOutcomes ==
    [ kind : {"response"}, data : {Undefined, Null, Str("")} \cup TeleBodies ]
    \cup [ kind : {"error"},
           message : {"connect ECONNREFUSED", "Request failed with status code 401"},
           response : {Undefined,
                       MkObj(<< <<"data", MkObj(<< <<"ok", Bool(FALSE)>>,
                                                  <<"description", Str("Unauthorized")>> >>)>> >>)} ]

----------------------------------------------------------------------------
(* sendTele as steps of the host *)

\* lines 98-141: up to the await of axios.post
SendTeleCall(m) ==
    /\ pc = "idle"
    /\ rawMessage' = m
    /\ IF credentialsMissing(token, chatid)
       THEN /\ log' = logStyled(log, "Token bot Telegram atau Chat ID belum dikonfigurasi di global. Pesan tidak terkirim.", "warn")
            /\ pc' = "send_resolved"
            /\ UNCHANGED <<calls, reply>>
       ELSE IF escapeThrows(m)
       THEN /\ pc' = "send_rejected"
            /\ reply' = [kind |-> "thrown", message |-> TypeErrorMessage(m, "replace")]
            /\ UNCHANGED <<calls, log>>
       ELSE /\ log' = logStyled(log, "Mencoba mengirim notifikasi ke Telegram...", "info")
            /\ calls' = Append(calls,
                    [ api |-> "telegram",
                      url |-> teleUrl(token),
                      chat_id |-> Interpolate(chatid),
                      text |-> fullText(escapeMarkdownV2(m.v)),
                      parse_mode |-> "MarkdownV2" ])
            /\ pc' = "tele_await"
            /\ UNCHANGED reply
    /\ UNCHANGED <<token, chatid, req, locals, snapshot, escVars>>

\* lines 141-158: the sendMessage call settles and the promise resolves
TeleSettle(o) ==
    /\ pc = "tele_await"
    /\ reply' = o
    /\ log' = teleLog(log, o)
    /\ pc' = "send_resolved"
    /\ UNCHANGED <<token, chatid, req, locals, snapshot, rawMessage, calls, escVars>>

----------------------------------------------------------------------------
(* The host: one invocation at a time, then the next *)

NoLocals == [ ip |-> NoValue, userAgent |-> NoValue, method |-> NoValue, url |-> NoValue,
              query |-> NoValue, headers |-> NoValue, timestamp |-> NoValue ]
NoSnapshot == [ ip |-> NoValue, userAgent |-> NoValue, method |-> NoValue, url |-> NoValue,
                query |-> NoValue, headers |-> NoValue, location |-> NoValue,
                timestamp |-> NoValue ]
NoRequest == [ headers |-> NoValue, connection |-> NoValue, method |-> NoValue,
               originalUrl |-> NoValue, url |-> NoValue, query |-> NoValue ]
NoReply == [kind |-> "none"]

Settled == {"get_resolved", "get_rejected", "send_resolved", "send_rejected"}

\* the caller takes the settled promise; the next invocation starts afresh
Return ==
    /\ pc \in Settled
    /\ pc' = "idle"
    /\ req' = NoRequest
    /\ locals' = NoLocals
    /\ snapshot' = NoSnapshot
    /\ rawMessage' = NoValue
    /\ calls' = <<>>
    /\ reply' = NoReply
    /\ log' = <<>>
    /\ UNCHANGED <<token, chatid, escVars>>

Init ==
    /\ pc = "idle"
    /\ token \in Tokens
    /\ chatid \in ChatIds
    /\ req = NoRequest
    /\ locals = NoLocals
    /\ snapshot = NoSnapshot
    /\ rawMessage = NoValue
    /\ calls = <<>>
    /\ reply = NoReply
    /\ log = <<>>
    /\ text = <<>>
    /\ out = <<>>
    /\ epc = "off"

Next ==
    \/ \E r \in Requests, ts \in Timestamps : GetRequestCall(r, ts)
    \/ \E o \in GeoOutcomes : GeoSettle(o)
    \/ \E m \in RawMessages : SendTeleCall(m)
    \/ \E o \in TeleOutcomes : TeleSettle(o)
    \/ Return

Spec == Init /\ [][Next]_vars

----------------------------------------------------------------------------
(* The escaper on its own: every text up to MaxTextLen is escaped once *)

InitEscape ==
    /\ pc = "idle"
    /\ token = Undefined
    /\ chatid = Undefined
    /\ req = NoRequest
    /\ locals = NoLocals
    /\ snapshot = NoSnapshot
    /\ rawMessage = NoValue
    /\ calls = <<>>
    /\ reply = NoReply
    /\ log = <<>>
    /\ text \in TextsUpTo(MaxTextLen)
    /\ out = <<>>
    /\ epc = "input"

Escape ==
    /\ epc = "input"
    /\ out' = escapeMarkdownV2(text)
    /\ epc' = "escaped"
    /\ UNCHANGED <<hostVars, text>>

NextEscape == Escape

SpecEscape == InitEscape /\ [][NextEscape]_vars

----------------------------------------------------------------------------
(* Properties of sendTele *)

WarnLine == [ type |-> "warn",
              text |-> "Token bot Telegram atau Chat ID belum dikonfigurasi di global. Pesan tidak terkirim." ]
SuccessLine == [type |-> "success", text |-> "Notifikasi Telegram berhasil terkirim!"]
Lines(l) == { l[i] : i \in 1..Len(l) }
ErrorLines(l) == { e \in Lines(l) : e.type \in {"error", "console.error"} }
InSendTele == pc \in {"tele_await", "send_resolved", "send_rejected"}

\* C1: the promise sendTele returns never rejects, whatever rawMessage, the
\* credentials and the outcome of the sendMessage call are.
SendTeleNeverRejects == pc # "send_rejected"

\* C3: with the token or the chat id absent, sendTele issues no outbound call,
\* logs the warning and resolves, whatever rawMessage is.
MissingCredentialsNoCall ==
    (InSendTele /\ (token = Undefined \/ chatid = Undefined)) =>
        /\ pc = "send_resolved"
        /\ calls = <<>>
        /\ log = <<WarnLine>>

MissingCredentialsWitness ==
    /\ pc = "send_resolved"
    /\ token # Undefined
    /\ chatid = Undefined
    /\ rawMessage = [t |-> "string", v |-> <<46>>]
    /\ calls = <<>>

\* C8: once the sendMessage call has returned a response, a truthy ok gives the
\* success line and no error line; any other response, one without a body
\* included, gives an error line made of the description or of the generic
\* phrase; and sendTele resolves.
TeleResponseLogged ==
    (InSendTele /\ reply.kind = "response") =>
        /\ pc = "send_resolved"
        /\ IF reply.data.t = "object" /\ Truthy(Get(reply.data, "ok"))
           THEN SuccessLine \in Lines(log) /\ ErrorLines(log) = {}
           ELSE LET d == IF reply.data.t = "object" THEN Get(reply.data, "description")
                         ELSE Undefined
                    reason == IF Truthy(d) THEN d.v ELSE "Alasan tidak diketahui"
                IN  [ type |-> "error",
                      text |-> "Gagal mengirim notifikasi Telegram: " \o reason ]
                        \in Lines(log)

----------------------------------------------------------------------------
(* Properties of getRequest *)

Absent(x) == x \in {Undefined, Str("")}
NonEmptyString(x) == x.t = "string" /\ x.v # ""
Header(r, k) == IF r.headers.t = "object" THEN Get(r.headers, k) ELSE Undefined
RemoteAddress(r) ==
    IF r.connection.t = "object" THEN Get(r.connection, "remoteAddress") ELSE Undefined

\* C2: the promise getRequest returns never rejects: it resolves with a
\* snapshot for every request, one without headers or connection included.
GetRequestNeverRejects == pc # "get_rejected"

\* C6: every field of a returned snapshot is a non-empty string, and a field
\* whose source is absent or empty holds its fallback literal.
SnapshotFieldsNonEmpty ==
    pc = "get_resolved" =>
        /\ \A f \in DOMAIN snapshot : NonEmptyString(snapshot[f])
        /\ (Absent(Header(req, "x-forwarded-for")) /\ Absent(RemoteAddress(req)))
                => snapshot.ip = Str("Unknown IP")
        /\ Absent(Header(req, "user-agent")) => snapshot.userAgent = Str("Unknown User-Agent")
        /\ Absent(req.method) => snapshot.method = Str("Unknown Method")
        /\ (Absent(req.originalUrl) /\ Absent(req.url)) => snapshot.url = Str("Unknown URL")
        /\ (req.query = Undefined \/ req.query = Obj(<<>>)) => snapshot.query = Str("{}")
        /\ (req.headers = Undefined \/ req.headers = Obj(<<>>)) => snapshot.headers = Str("{}")

SnapshotFallbackWitness ==
    /\ pc = "get_resolved"
    /\ req.headers = Obj(<<>>)
    /\ req.query = Undefined
    /\ snapshot.ip = Str("Unknown IP")
    /\ snapshot.userAgent = Str("Unknown User-Agent")
    /\ snapshot.method = Str("Unknown Method")
    /\ snapshot.url = Str("Unknown URL")
    /\ snapshot.query = Str("{}")
    /\ snapshot.headers = Str("{}")

\* C7: the location of the snapshot follows the outcome of the lookup: city,
\* region and country on status success; the service's message, or the generic
\* phrase without one, on any other status; the error's message on a transport
\* failure or a response without a body object.
LocationFollowsOutcome ==
    pc = "get_resolved" =>
        LET d == reply.data
            field(k) == Interpolate(Get(d, k))
        IN  CASE reply.kind = "error" ->
                    snapshot.location = Str("Error saat mengambil lokasi: " \o reply.message)
              [] reply.kind = "response" /\ d.t \in {"undefined", "null"} ->
                    snapshot.location =
                        Str("Error saat mengambil lokasi: Cannot read properties of "
                                \o d.t \o " (reading 'message')")
              [] reply.kind = "response" /\ d.t = "object"
                    /\ Get(d, "status") = Str("success") ->
                    snapshot.location =
                        Str(field("city") \o ", " \o field("regionName") \o ", "
                                \o field("country"))
              [] OTHER ->
                    snapshot.location =
                        Str("Gagal mendapatkan lokasi: "
                                \o (IF Absent(Get(d, "message"))
                                    THEN "Error tidak diketahui dari ip-api.com"
                                    ELSE Get(d, "message").v))

LocationServiceFailureWitness ==
    /\ pc = "get_resolved"
    /\ reply.kind = "response"
    /\ reply.data.t = "object"
    /\ Get(reply.data, "status") = Str("fail")
    /\ snapshot.location = Str("Gagal mendapatkan lokasi: invalid query")

----------------------------------------------------------------------------
(* No retry *)

\* C9: every settled getRequest invocation has issued exactly one geolocation
\* call, every settled sendTele invocation with both credentials present
\* exactly one sendMessage call, and no invocation ever issues a second call.
ExactlyOneCallPerInvocation ==
    /\ Len(calls) <= 1
    /\ pc \in {"get_resolved", "get_rejected"} =>
            Len(calls) = 1 /\ calls[1].api = "geo"
    /\ (pc \in {"send_resolved", "send_rejected"} /\ Truthy(token) /\ Truthy(chatid)) =>
            Len(calls) = 1 /\ calls[1].api = "telegram"

----------------------------------------------------------------------------
(* Properties of escapeMarkdownV2 *)

Reserved == { Substitutions[i][1] : i \in 1..Len(Substitutions) }

\* txt with every occurrence of the two code units <<Backslash, c>> replaced by c
RECURSIVE unreplace(_, _)
unreplace(txt, c) ==
    IF txt = <<>> THEN <<>>
    ELSE IF Len(txt) >= 2 /\ txt[1] = Backslash /\ txt[2] = c
         THEN <<c>> \o unreplace(SubSeq(txt, 3, Len(txt)), c)
    ELSE <<Head(txt)>> \o unreplace(Tail(txt), c)

\* the inverse of the chain: each substitution reversed, the last one first
RECURSIVE unescapeChain(_, _)
unescapeChain(txt, n) ==
    IF n = 0 THEN txt ELSE unescapeChain(unreplace(txt, Substitutions[n][1]), n - 1)

unescapeMarkdownV2(txt) == unescapeChain(txt, Len(Substitutions))

\* one pass over the original text, a backslash put before each reserved unit
RECURSIVE singlePassEscape(_)
singlePassEscape(txt) ==
    IF txt = <<>> THEN <<>>
    ELSE (IF Head(txt) \in Reserved THEN <<Backslash, Head(txt)>> ELSE <<Head(txt)>>)
            \o singlePassEscape(Tail(txt))

\* MarkdownV2 reads a backslash as the escape of the unit after it; a reserved
\* unit that no backslash escapes is an unescaped occurrence
RECURSIVE hasUnescapedReserved(_)
hasUnescapedReserved(txt) ==
    IF txt = <<>> THEN FALSE
    ELSE IF Head(txt) = Backslash
         THEN Len(txt) >= 2 /\ hasUnescapedReserved(SubSeq(txt, 3, Len(txt)))
    ELSE Head(txt) \in Reserved \/ hasUnescapedReserved(Tail(txt))

\* C4: unescaping the escaped text gives back the text, for texts of reserved
\* characters, ordinary characters and backslashes.
EscapeRoundTrip == epc = "escaped" => unescapeMarkdownV2(out) = text

EscapeRoundTripWitness ==
    /\ epc = "escaped"
    /\ text = <<Backslash, 46, 97>>
    /\ out = <<Backslash, Backslash, 46, 97>>

\* C5: the escaped text holds no unescaped reserved character, also when the
\* text already holds backslashes.
EscapeLeavesNoneUnescaped == epc = "escaped" => ~hasUnescapedReserved(out)

\* C10: the chain of 18 global replacements gives the output of a single pass
\* that puts one backslash before each reserved character.
ChainEqualsSinglePass == epc = "escaped" => out = singlePassEscape(text)

ChainAdjacentReservedWitness ==
    /\ epc = "escaped"
    /\ text = <<97, 46, 45>>
    /\ out = <<97, Backslash, 46, Backslash, 45>>

====
